---- MODULE Spec2Model ----
(***************************************************************************)
(* A model of the TIM2 decoder of tim2-rs (lib/src/image.rs and            *)
(* lib/src/frame.rs).  One decode pass over an immutable byte buffer is a  *)
(* run of the state machine: the container header is read, then for each   *)
(* declared frame its header, its pixel data and its palettes, and finally *)
(* a decoded frame is materialised with to_raw.                            *)
(*                                                                         *)
(* Numbers are TLC integers (32 bit, signed).  All multi-byte fields the   *)
(* model reads stay below 2^31; the two 64-bit GS registers are kept as    *)
(* their eight little-endian bytes, so bit 55 is bit 7 of byte 6.          *)
(***************************************************************************)
EXTENDS Integers, Sequences, FiniteSets, TLC

VARIABLES
    buffer,     \* the input bytes (never changes during a pass)
    offset,     \* the cursor: `offset` of image.rs / frame.rs
    pc,         \* position of the pass
    count,      \* image Header.count
    cur,        \* the frame being read: its header, then its data
    frames,     \* Image.frames
    result,     \* outcome of Image::read once pc = "done"
    raw,        \* outcome of the last Frame::to_raw call
    directory_tree, \* Viewer.directory_tree: folders, entries, their filtered lists, idx, query
    state,      \* Viewer.state
    image_title, \* Viewer.image_title
    entry       \* load_image, line 263: outcome of filtered_entries[idx] in the last call

(* The variables of the decoder and those of the viewer.                   *)
dvars == <<buffer, offset, pc, count, cur, frames, result, raw>>
vvars == <<directory_tree, state, image_title, entry>>

vars == <<buffer, offset, pc, count, cur, frames, result, raw,
          directory_tree, state, image_title, entry>>

----------------------------------------------------------------------------
(* Bounds of the model.                                                    *)

MaxFrames == 2
MaxBppCode == 5
MaxEntries == 2
MaxCut == 1
MaxKeys == 8

(* Program constants.                                                      *)

IDENT == 1414090034            \* 0x54494d32
SWIZZLE_WIDTH == 16
SWIZZLE_HEIGHT == 8
FRAME_HEADER_SIZE == 48

----------------------------------------------------------------------------
(* Outcomes.  A Rust function of the decoder returns Ok(v), returns        *)
(* Err(e), or does not return at all (a panic unwinds the pass).           *)

Ok(v) == [kind |-> "Ok", v |-> v]
Err(e, arg) == [kind |-> "Err", err |-> e, arg |-> arg]
Panic(cause) == [kind |-> "Panic", cause |-> cause]
None == [kind |-> "None"]

----------------------------------------------------------------------------
(* Byte order.                                                             *)

RECURSIVE read_le(_)
read_le(s) == IF s = <<>> THEN 0 ELSE Head(s) + 256 * read_le(Tail(s))

RECURSIVE read_be(_)
read_be(s) ==
    IF s = <<>> THEN 0 ELSE s[Len(s)] + 256 * read_be(SubSeq(s, 1, Len(s) - 1))

(* common::get_slice: the next `size` bytes after the cursor, and the      *)
(* cursor advanced past them.  It fails when fewer than `size` bytes       *)
(* remain; its callers use the returned slice directly, so a failure       *)
(* unwinds the pass.                                                       *)
get_slice(buf, off, size) ==
    IF off + size <= Len(buf)
    THEN [ok |-> TRUE, slice |-> SubSeq(buf, off + 1, off + size), offset |-> off + size]
    ELSE [ok |-> FALSE, slice |-> <<>>, offset |-> off]

(* A run of consecutive load_part(size) calls: the slices in call order,   *)
(* or the failure of the first call that runs out of input.                *)
RECURSIVE load_parts(_, _, _)
load_parts(buf, off, sizes) ==
    IF sizes = <<>> THEN [ok |-> TRUE, parts |-> <<>>, offset |-> off]
    ELSE LET g == get_slice(buf, off, Head(sizes)) IN
         IF ~g.ok THEN [ok |-> FALSE, parts |-> <<>>, offset |-> off]
         ELSE LET r == load_parts(buf, g.offset, Tail(sizes)) IN
              IF ~r.ok THEN r
              ELSE [ok |-> TRUE, parts |-> <<g.slice>> \o r.parts, offset |-> r.offset]

----------------------------------------------------------------------------
(* pixel.rs: a Pixel is four 8-bit channels; equality is component-wise.   *)

Pixel(r, g, b, a) == [r |-> r, g |-> g, b |-> b, a |-> a]

(* Pixel::default(), the filler of a fresh unswizzle destination.          *)
DefaultPixel == Pixel(0, 0, 0, 0)

(* 5-bit channel to 8 bits: x << 3 | x >> 2.                               *)
Expand5(x) == x * 8 + x \div 4

(* Pixel::from_buf: one colour sample of 2, 3 or 4 bytes.                  *)
from_buf(slice) ==
    CASE Len(slice) = 2 ->
            LET v == read_le(slice) IN
            Ok(Pixel(Expand5(v % 32), Expand5((v \div 32) % 32),
                     Expand5((v \div 1024) % 32),
                     IF v \div 32768 = 1 THEN 255 ELSE 0))
      [] Len(slice) = 3 -> Ok(Pixel(slice[1], slice[2], slice[3], 255))
      [] Len(slice) = 4 -> Ok(Pixel(slice[1], slice[2], slice[3], slice[4]))
      [] OTHER -> Err("InvalidColorSampleSize", Len(slice))

----------------------------------------------------------------------------
(* frame.rs: Header.                                                       *)

(* A bpp table whose fallback arm is the 8-bit depth.                     *)
find_bpp_NoDefault(v) ==
    CASE v = 1 -> Ok(16)
      [] v = 2 -> Ok(24)
      [] v = 3 -> Ok(32)
      [] v = 4 -> Ok(4)
      [] OTHER -> Ok(8)

(* Header::find_bpp                                                        *)
find_bpp(v) ==
    CASE v = 1 -> Ok(16)
      [] v = 2 -> Ok(24)
      [] v = 3 -> Ok(32)
      [] v = 4 -> Ok(4)
      [] v = 5 -> Ok(8)
      [] OTHER -> Err("InvalidBppFormat", v)

(* The test of bit 0x40 of clut_format.                                   *)
is_linear_palette_Bit6(h) == (h.clut_format \div 64) % 2 = 1

(* Header::is_linear_palette: clut_format & 0x80 != 0                      *)
is_linear_palette(h) == (h.clut_format \div 128) % 2 = 1

(* Header::color_size                                                      *)
color_size(h) ==
    IF h.bpp > 8 THEN h.bpp \div 8 ELSE (h.clut_format % 8) + 1

(* Header::pixel_format                                                    *)
pixel_format(h) ==
    CASE h.bpp = 4 -> Ok("Indexed4")
      [] h.bpp = 8 -> Ok("Indexed8")
      [] h.bpp = 16 -> Ok("Abgr1555")
      [] h.bpp = 24 -> Ok("Rgb888")
      [] h.bpp = 32 -> Ok("Rgba8888")
      [] OTHER -> Err("InvalidBpp", h.bpp)

(* Frame::format                                                           *)
format(f) == pixel_format(f.header)

(* header.gs_tex_0 & (1 << 55) != 0, on the little-endian bytes of the     *)
(* register.                                                               *)
needs_unswizzle(h) == (h.gs_tex_0[7] \div 128) % 2 = 1

(* The two builds of `header_size as usize - 48` when header_size < 48:    *)
(* with overflow checks the subtraction panics; without them it wraps to   *)
(* a size no buffer holds and the get_slice that follows fails.            *)
Builds == {"debug", "release"}

(* Header::read.  The struct fields are evaluated in source order, so an   *)
(* invalid bpp code returns before width is read.                          *)
HeaderRead(buf, off, build) ==
    LET p1 == load_parts(buf, off, <<4, 4, 4, 2, 2, 1, 1, 1, 1>>) IN
    IF ~p1.ok THEN [res |-> Panic("UnexpectedEndOfInput"), offset |-> p1.offset]
    ELSE
    LET bpp == find_bpp(p1.parts[9][1]) IN
    IF bpp.kind = "Err" THEN [res |-> bpp, offset |-> p1.offset]
    ELSE
    LET p2 == load_parts(buf, p1.offset, <<2, 2, 8, 8, 4, 4>>) IN
    IF ~p2.ok THEN [res |-> Panic("UnexpectedEndOfInput"), offset |-> p2.offset]
    ELSE
    LET h == [total_size        |-> read_le(p1.parts[1]),
              palette_size      |-> read_le(p1.parts[2]),
              image_size        |-> read_le(p1.parts[3]),
              header_size       |-> read_le(p1.parts[4]),
              color_entry_count |-> read_le(p1.parts[5]),
              paletted          |-> p1.parts[6][1],
              mipmap_count      |-> p1.parts[7][1],
              clut_format       |-> p1.parts[8][1],
              bpp               |-> bpp.v,
              width             |-> read_le(p2.parts[1]),
              height            |-> read_le(p2.parts[2]),
              gs_tex_0          |-> p2.parts[3],
              gs_tex_1          |-> p2.parts[4],
              gs_regs           |-> read_le(p2.parts[5]),
              gs_tex_clut       |-> read_le(p2.parts[6]),
              user_data         |-> <<>>]
    IN
    IF h.header_size < FRAME_HEADER_SIZE
    THEN [res |-> Panic(IF build = "debug" THEN "SubtractOverflow"
                        ELSE "UnexpectedEndOfInput"),
          offset |-> p2.offset]
    ELSE
    LET user_data_size == h.header_size - FRAME_HEADER_SIZE
        u == get_slice(buf, p2.offset, user_data_size)
    IN
    IF user_data_size > 0 /\ ~u.ok
    THEN [res |-> Panic("UnexpectedEndOfInput"), offset |-> p2.offset]
    ELSE
    LET hu == IF user_data_size > 0 THEN [h EXCEPT !.user_data = u.slice] ELSE h
        end == IF user_data_size > 0 THEN u.offset ELSE p2.offset
    IN
    IF hu.palette_size > 0 /\ hu.bpp > 8
    THEN [res |-> Err("TrueColorAndPaletteFound", 0), offset |-> end]
    ELSE [res |-> Ok(hu), offset |-> end]

----------------------------------------------------------------------------
(* frame.rs: Frame.                                                        *)

(* Bitwise and of two naturals.                                            *)
RECURSIVE BitAnd(_, _)
BitAnd(x, y) ==
    IF x = 0 \/ y = 0 THEN 0
    ELSE (x % 2) * (y % 2) + 2 * BitAnd(x \div 2, y \div 2)

(* The two indices pushed for one source byte of a 4-bpp payload.  In Rust *)
(* `>>` binds tighter than `&`, so `*index_pair & 0xF0 >> 4` is            *)
(* `*index_pair & (0xF0 >> 4)`.                                            *)
index_pair_first(b) == BitAnd(b, 240 \div 16)
index_pair_second(b) == BitAnd(b, 15)

unpack_nibbles(slice) ==
    [i \in 1..(2 * Len(slice)) |->
        IF i % 2 = 1 THEN index_pair_first(slice[(i + 1) \div 2])
        ELSE index_pair_second(slice[i \div 2])]

(* Frame::read_colors.  step_by(0) panics when the iterator is built;      *)
(* otherwise there is one iteration per started chunk of color_size bytes. *)
(* Iteration j finds the local cursor at j * color_size, takes a slice     *)
(* with get_slice and decodes it with from_buf; the first iteration that   *)
(* fails ends the function.                                                *)
read_colors_at(buf, csize, j) ==
    LET g == get_slice(buf, j * csize, csize) IN
    IF ~g.ok THEN Panic("UnexpectedEndOfInput") ELSE from_buf(g.slice)

read_colors(buf, csize) ==
    IF csize = 0 THEN Panic("StepByZero")
    ELSE LET n == (Len(buf) + csize - 1) \div csize
             failed == { j \in 0..(n - 1) : read_colors_at(buf, csize, j).kind # "Ok" }
         IN IF failed = {}
            THEN Ok([k \in 1..n |-> read_colors_at(buf, csize, k - 1).v])
            ELSE read_colors_at(buf, csize, CHOOSE j \in failed : \A m \in failed : j <= m)

(* The source index with the strides of block and stripe exchanged.        *)
linearize_source_Exchanged(n) ==
    LET COLOR_COUNT == 8
        BLOCK_COUNT == 2
        STRIPE_COUNT == 2
        part == n \div (BLOCK_COUNT * STRIPE_COUNT * COLOR_COUNT)
        block == (n \div (STRIPE_COUNT * COLOR_COUNT)) % BLOCK_COUNT
        stripe == (n \div COLOR_COUNT) % STRIPE_COUNT
        color == n % COLOR_COUNT
        i1 == part * COLOR_COUNT * STRIPE_COUNT * BLOCK_COUNT
        i2 == block * STRIPE_COUNT * COLOR_COUNT
        i3 == stripe * COLOR_COUNT
    IN i1 + i2 + i3 + color

(* Frame::linearize_palette.  Iteration n of the loop nest (part, block,   *)
(* stripe, color) writes palette[i] with i = n from the clone `original`.  *)
linearize_source(n) ==
    LET COLOR_COUNT == 8
        BLOCK_COUNT == 2
        STRIPE_COUNT == 2
        part == n \div (BLOCK_COUNT * STRIPE_COUNT * COLOR_COUNT)
        block == (n \div (STRIPE_COUNT * COLOR_COUNT)) % BLOCK_COUNT
        stripe == (n \div COLOR_COUNT) % STRIPE_COUNT
        color == n % COLOR_COUNT
        i1 == part * COLOR_COUNT * STRIPE_COUNT * BLOCK_COUNT
        i2 == block * COLOR_COUNT
        i3 == stripe * STRIPE_COUNT * COLOR_COUNT
    IN i1 + i2 + i3 + color

(* A walk that stops one group of 32 early.                                *)
linearize_palette_SkipLast(palette) ==
    LET part_count == (Len(palette) \div 32) - 1 IN
    [k \in 1..Len(palette) |->
        IF k - 1 < part_count * 32 THEN palette[linearize_source(k - 1) + 1]
        ELSE palette[k]]

linearize_palette(palette) ==
    LET part_count == Len(palette) \div 32 IN
    [k \in 1..Len(palette) |->
        IF k - 1 < part_count * 32 THEN palette[linearize_source(k - 1) + 1]
        ELSE palette[k]]

(* Frame::unswizzle.  The loop nest (y, x, tile_y, tile_x) runs            *)
(* `iterations` times and the cursor i counts the iterations, so iteration *)
(* i visits the cell computed below.  It writes result[index] when the     *)
(* cell lies in the frame and buffer.get(i) is Some; result[index] is a    *)
(* checked index into a vector of buffer.len() elements, so a write past   *)
(* its end panics.  An element of the result holds what the last write to  *)
(* it stored, or the default it was created with.  `written` tabulates,    *)
(* per iteration, the index written (-1 for none).                         *)
StepCount(n, step) == (n + step - 1) \div step

(* A walk that runs down the columns of a tile.                            *)
unswizzle_cell_ColumnMajor(width, i) ==
    LET cells == SWIZZLE_WIDTH * SWIZZLE_HEIGHT
        tile == i \div cells
        y == (tile \div StepCount(width, SWIZZLE_WIDTH)) * SWIZZLE_HEIGHT
        x == (tile % StepCount(width, SWIZZLE_WIDTH)) * SWIZZLE_WIDTH
    IN [tile_y |-> y + ((i % cells) % SWIZZLE_HEIGHT),
        tile_x |-> x + ((i % cells) \div SWIZZLE_HEIGHT)]

unswizzle_cell(width, i) ==
    LET cells == SWIZZLE_WIDTH * SWIZZLE_HEIGHT
        tile == i \div cells
        y == (tile \div StepCount(width, SWIZZLE_WIDTH)) * SWIZZLE_HEIGHT
        x == (tile % StepCount(width, SWIZZLE_WIDTH)) * SWIZZLE_WIDTH
    IN [tile_y |-> y + ((i % cells) \div SWIZZLE_WIDTH),
        tile_x |-> x + ((i % cells) % SWIZZLE_WIDTH)]

(* A read guard that also skips the last element of the source.           *)
unswizzle_DropsLast(buf, h, default) ==
    LET iterations == StepCount(h.height, SWIZZLE_HEIGHT) * StepCount(h.width, SWIZZLE_WIDTH)
                      * SWIZZLE_WIDTH * SWIZZLE_HEIGHT
        writes(i) == LET c == unswizzle_cell(h.width, i) IN
                     c.tile_x < h.width /\ c.tile_y < h.height /\ i + 1 < Len(buf)
        index(i) == LET c == unswizzle_cell(h.width, i) IN c.tile_y * h.width + c.tile_x
        written == [n \in 1..iterations |-> IF writes(n - 1) THEN index(n - 1) ELSE -1]
                   \o <<>>
        writers(k) == { i \in 0..(iterations - 1) : written[i + 1] = k }
        last(S) == CHOOSE i \in S : \A j \in S : j <= i
    IN
    IF \E i \in 0..(iterations - 1) : written[i + 1] >= Len(buf)
    THEN Panic("IndexOutOfBounds")
    ELSE Ok([k \in 1..Len(buf) |->
                IF writers(k - 1) = {} THEN default
                ELSE buf[last(writers(k - 1)) + 1]])

unswizzle(buf, h, default) ==
    LET iterations == StepCount(h.height, SWIZZLE_HEIGHT) * StepCount(h.width, SWIZZLE_WIDTH)
                      * SWIZZLE_WIDTH * SWIZZLE_HEIGHT
        writes(i) == LET c == unswizzle_cell(h.width, i) IN
                     c.tile_x < h.width /\ c.tile_y < h.height /\ i < Len(buf)
        index(i) == LET c == unswizzle_cell(h.width, i) IN c.tile_y * h.width + c.tile_x
        written == [n \in 1..iterations |-> IF writes(n - 1) THEN index(n - 1) ELSE -1]
                   \o <<>>
        writers(k) == { i \in 0..(iterations - 1) : written[i + 1] = k }
        last(S) == CHOOSE i \in S : \A j \in S : j <= i
    IN
    IF \E i \in 0..(iterations - 1) : written[i + 1] >= Len(buf)
    THEN Panic("IndexOutOfBounds")
    ELSE Ok([k \in 1..Len(buf) |->
                IF writers(k - 1) = {} THEN default
                ELSE buf[last(writers(k - 1)) + 1]])

Indices(v) == [kind |-> "Indices", v |-> v]
Pixels(v) == [kind |-> "Pixels", v |-> v]

(* A dispatch on the `paletted` byte of the header.                        *)
read_data_ByPalettedByte(buf, off, h) ==
    LET pixel_size == h.bpp \div 8
        g == get_slice(buf, off, h.image_size)
    IN
    IF ~g.ok THEN [res |-> Panic("UnexpectedEndOfInput"), offset |-> off]
    ELSE
    LET data == IF h.bpp = 4 THEN unpack_nibbles(g.slice) ELSE g.slice IN
    IF h.paletted # 0
    THEN LET r == IF needs_unswizzle(h) THEN unswizzle(data, h, 0) ELSE Ok(data) IN
         [res |-> IF r.kind = "Ok" THEN Ok(Indices(r.v)) ELSE r, offset |-> g.offset]
    ELSE LET colors == read_colors(data, pixel_size) IN
         IF colors.kind # "Ok" THEN [res |-> colors, offset |-> g.offset]
         ELSE LET r == IF needs_unswizzle(h) THEN unswizzle(colors.v, h, DefaultPixel)
                       ELSE colors
              IN [res |-> IF r.kind = "Ok" THEN Ok(Pixels(r.v)) ELSE r, offset |-> g.offset]

(* Frame::read_data                                                        *)
read_data(buf, off, h) ==
    LET pixel_size == h.bpp \div 8
        g == get_slice(buf, off, h.image_size)
    IN
    IF ~g.ok THEN [res |-> Panic("UnexpectedEndOfInput"), offset |-> off]
    ELSE
    LET data == IF h.bpp = 4 THEN unpack_nibbles(g.slice) ELSE g.slice IN
    IF h.palette_size > 0
    THEN LET r == IF needs_unswizzle(h) THEN unswizzle(data, h, 0) ELSE Ok(data) IN
         [res |-> IF r.kind = "Ok" THEN Ok(Indices(r.v)) ELSE r, offset |-> g.offset]
    ELSE LET colors == read_colors(data, pixel_size) IN
         IF colors.kind # "Ok" THEN [res |-> colors, offset |-> g.offset]
         ELSE LET r == IF needs_unswizzle(h) THEN unswizzle(colors.v, h, DefaultPixel)
                       ELSE colors
              IN [res |-> IF r.kind = "Ok" THEN Ok(Pixels(r.v)) ELSE r, offset |-> g.offset]

(* Frame::read_palettes                                                    *)
RECURSIVE read_palettes_from(_, _, _, _, _)
read_palettes_from(slice, h, size, i, cnt) ==
    IF i = cnt THEN Ok(<<>>)
    ELSE
    LET start_index == size * i
        end_index == start_index + size
        data == SubSeq(slice, start_index + 1, end_index)
        palette == read_colors(data, color_size(h))
    IN
    IF palette.kind # "Ok" THEN palette
    ELSE LET p == IF ~is_linear_palette(h) /\ h.bpp = 8
                  THEN linearize_palette(palette.v) ELSE palette.v
             rest == read_palettes_from(slice, h, size, i + 1, cnt)
         IN IF rest.kind # "Ok" THEN rest ELSE Ok(<<p>> \o rest.v)

read_palettes(buf, off, h) ==
    IF h.palette_size = 0 THEN [res |-> Ok(<<>>), offset |-> off]
    ELSE
    LET total_size == h.palette_size
        g == get_slice(buf, off, total_size)
    IN
    IF ~g.ok THEN [res |-> Panic("UnexpectedEndOfInput"), offset |-> off]
    ELSE
    LET size == h.color_entry_count * color_size(h) IN
    IF size = 0 THEN [res |-> Panic("DivideByZero"), offset |-> g.offset]
    ELSE [res |-> read_palettes_from(g.slice, h, size, 0, total_size \div size),
          offset |-> g.offset]

(* The loop of get_pixels over the indices; palette[index] is a checked    *)
(* indexing.                                                               *)
lookup_all(palette, v) ==
    IF \E k \in 1..Len(v) : v[k] >= Len(palette) THEN Panic("IndexOutOfBounds")
    ELSE Ok([k \in 1..Len(v) |-> palette[v[k] + 1]])

(* A get_pixels that resolves indices through the last palette.            *)
get_pixels_LastPalette(f) ==
    IF f.data.kind = "Indices"
    THEN IF Len(f.palettes) = 0 THEN Panic("IndexOutOfBounds")
         ELSE lookup_all(f.palettes[Len(f.palettes)], f.data.v)
    ELSE Ok(f.data.v)

(* Frame::get_pixels.  self.palettes[0] is a checked indexing.             *)
get_pixels(f) ==
    IF f.data.kind = "Indices"
    THEN IF Len(f.palettes) = 0 THEN Panic("IndexOutOfBounds")
         ELSE lookup_all(f.palettes[1], f.data.v)
    ELSE Ok(f.data.v)

(* Frame::to_raw.  color_key is None or Some(pixel).                       *)
Some(v) == [kind |-> "Some", v |-> v]

(* A key test with the branches exchanged.                                 *)
raw_alpha_Inverted(color_key, pixel) ==
    IF color_key.kind = "Some"
    THEN IF color_key.v = pixel THEN pixel.a ELSE 0
    ELSE pixel.a

raw_alpha(color_key, pixel) ==
    IF color_key.kind = "Some"
    THEN IF color_key.v # pixel THEN pixel.a ELSE 0
    ELSE pixel.a

raw_bytes(pixels, color_key) ==
    [i \in 1..(4 * Len(pixels)) |->
        LET pixel == pixels[((i - 1) \div 4) + 1] IN
        CASE i % 4 = 1 -> pixel.r
          [] i % 4 = 2 -> pixel.g
          [] i % 4 = 3 -> pixel.b
          [] OTHER -> raw_alpha(color_key, pixel)]

to_raw(f, color_key) ==
    LET pixels == get_pixels(f) IN
    IF pixels.kind # "Ok" THEN pixels ELSE Ok(raw_bytes(pixels.v, color_key))

----------------------------------------------------------------------------
(* image.rs: the container header.                                         *)

(* A header reader that takes the identifier in the byte order of the      *)
(* other fields.                                                           *)
ImageHeaderRead_LittleEndian(buf, off) ==
    LET p == load_parts(buf, off, <<4, 2, 2, 8>>) IN
    IF ~p.ok THEN [res |-> Panic("UnexpectedEndOfInput"), offset |-> p.offset]
    ELSE
    LET identifier == read_le(p.parts[1])
        version == read_le(p.parts[2])
        cnt == read_le(p.parts[3])
    IN
    IF identifier # IDENT
    THEN [res |-> Err("InvalidIdentifier", identifier), offset |-> p.offset]
    ELSE [res |-> Ok([identifier |-> identifier, version |-> version, count |-> cnt]),
          offset |-> p.offset]

(* image::Header::read.  All 16 bytes are taken before the identifier is   *)
(* compared.                                                               *)
ImageHeaderRead(buf, off) ==
    LET p == load_parts(buf, off, <<4, 2, 2, 8>>) IN
    IF ~p.ok THEN [res |-> Panic("UnexpectedEndOfInput"), offset |-> p.offset]
    ELSE
    LET identifier == read_be(p.parts[1])
        version == read_le(p.parts[2])
        cnt == read_le(p.parts[3])
    IN
    IF identifier # IDENT
    THEN [res |-> Err("InvalidIdentifier", identifier), offset |-> p.offset]
    ELSE [res |-> Ok([identifier |-> identifier, version |-> version, count |-> cnt]),
          offset |-> p.offset]

----------------------------------------------------------------------------
(* The inputs: byte buffers built from a container header and frames whose *)
(* header fields and payload bytes range over small sets.                  *)

RECURSIVE Pow(_, _)
Pow(b, e) == IF e = 0 THEN 1 ELSE b * Pow(b, e - 1)

le_bytes(n, k) == [i \in 1..k |-> (n \div Pow(256, i - 1)) % 256]

Patterns == << <<18, 52, 0, 255>>, <<0, 0, 1, 16>> >>

(* Pattern 0 is the ramp 0, 1, 2, ..., which gives neighbouring elements   *)
(* different values.                                                       *)
PatternBytes(pat, n) ==
    [i \in 1..n |-> IF pat = 0 THEN (i - 1) % 256
                    ELSE Patterns[pat][((i - 1) % 4) + 1]]

Magics == { <<84, 73, 77, 50>>, <<0, 0, 0, 0>>, <<50, 77, 73, 84>> }
PaletteSizes == {0, 4, 5}
ImageSizes == {0, 2, 3, 4}
ClutFormats == {0, 1, 3}
Dims == { <<1, 1>>, <<2, 1>>, <<2, 2>> }
HeaderSizes == {40, 48, 50}

FrameInput(bc, ps, is, hs, cec, pal, cf, d, sw, pat) ==
    [bpp_code |-> bc, palette_size |-> ps, image_size |-> is, header_size |-> hs,
     color_entry_count |-> cec, paletted |-> pal, clut_format |-> cf,
     width |-> d[1], height |-> d[2], swizzled |-> sw, pat |-> pat,
     total_size |-> hs + is + ps]

(* The same frame with another value in its total_size field.              *)
WithTotal(f, t) == [f EXCEPT !.total_size = t]

(* One frame at a time with every combination of the fields that steer     *)
(* read_data, read_palettes and to_raw.                                    *)
FullFrames ==
    { FrameInput(bc, ps, is, 48, cec, 0, cf, d, sw, pat) :
        bc \in 0..MaxBppCode, ps \in PaletteSizes, is \in ImageSizes,
        cec \in 0..MaxEntries, cf \in ClutFormats, d \in Dims,
        sw \in BOOLEAN, pat \in 1..Len(Patterns) }

(* Frames for the containers that vary the magic, the frame count, the     *)
(* header size and the truncation.                                         *)
SmallFrames ==
    { FrameInput(bc, ps, 4, hs, 1, pal, 3, <<1, 1>>, FALSE, 2) :
        bc \in {3, 5}, ps \in {0, 4}, hs \in HeaderSizes, pal \in {0, 1} }

TailFrames ==
    { FrameInput(bc, ps, 4, 48, 1, 0, 3, <<1, 1>>, FALSE, 1) :
        bc \in {3, 5}, ps \in {0, 4} }

EncodeFrame(f) ==
    le_bytes(f.total_size, 4)
    \o le_bytes(f.palette_size, 4)
    \o le_bytes(f.image_size, 4)
    \o le_bytes(f.header_size, 2)
    \o le_bytes(f.color_entry_count, 2)
    \o <<f.paletted, 1, f.clut_format, f.bpp_code>>
    \o le_bytes(f.width, 2)
    \o le_bytes(f.height, 2)
    \o <<0, 0, 0, 0, 0, 0, IF f.swizzled THEN 128 ELSE 0, 0>>
    \o <<0, 0, 0, 0, 0, 0, 0, 0>>
    \o <<0, 0, 0, 0>>
    \o <<0, 0, 0, 0>>
    \o (IF f.header_size > 48 THEN [i \in 1..(f.header_size - 48) |-> 170] ELSE <<>>)
    \o PatternBytes(f.pat, f.image_size)
    \o PatternBytes(f.pat, f.palette_size)

RECURSIVE EncodeFrames(_)
EncodeFrames(fs) ==
    IF fs = <<>> THEN <<>> ELSE EncodeFrame(Head(fs)) \o EncodeFrames(Tail(fs))

EncodeImage(magic, cnt, fs, cut) ==
    LET all == magic \o le_bytes(4, 2) \o le_bytes(cnt, 2)
               \o <<0, 0, 0, 0, 0, 0, 0, 0>> \o EncodeFrames(fs)
    IN SubSeq(all, 1, Len(all) - cut)

RECURSIVE FrameLists(_)
FrameLists(n) ==
    IF n = 0 THEN { <<>> }
    ELSE IF n = 1 THEN { <<f>> : f \in SmallFrames }
    ELSE { Append(fs, t) : fs \in FrameLists(n - 1), t \in TailFrames }

Inputs ==
    { EncodeImage(<<84, 73, 77, 50>>, 1, <<f>>, 0) : f \in FullFrames }
    \cup UNION { { EncodeImage(m, Len(fs), fs, cut) :
                     m \in Magics, cut \in 0..MaxCut } :
                 fs \in UNION { FrameLists(n) : n \in 0..MaxFrames } }

----------------------------------------------------------------------------
(* viewer.rs: the file list of the viewer.                                 *)

(* The most .tm2 files a directory holds.                                  *)
MaxFiles == 3

(* File names are sequences of characters; the k-th file of a directory is *)
(* "A" followed by k - 1 times "a", so that the names are in the order     *)
(* load_directory sorts them into.                                         *)
FileName(k) == [i \in 1..k |-> IF i = 1 THEN "A" ELSE "a"]

FolderName == <<"b">>

(* The search strings typed: empty, runs of one letter, and "b".           *)
Queries ==
    {<<>>, <<"b">>}
    \cup { [i \in 1..k |-> c] : k \in 1..MaxFiles, c \in {"a", "A"} }

(* load_directory: the .tm2 files of a directory, sorted by file name.     *)
SortedFiles(S) ==
    [i \in 1..Cardinality(S) |->
        FileName(CHOOSE k \in S : Cardinality({ j \in S : j < k }) = i - 1)]

(* str::to_lowercase and str::contains on these names.                     *)
to_lowercase(s) ==
    [i \in 1..Len(s) |-> IF s[i] = "A" THEN "a" ELSE IF s[i] = "B" THEN "b" ELSE s[i]]

contains(s, q) ==
    \E k \in 0..(Len(s) - Len(q)) : SubSeq(s, k + 1, k + Len(q)) = q

(* DirectoryEntry::from applied to an enumerated list of paths.            *)
DirectoryEntries(paths) == [i \in 1..Len(paths) |-> [idx |-> i - 1, path |-> paths[i]]]

(* DirectoryTree::update_filter                                            *)
update_filter(dt) ==
    LET Matches(e) == contains(to_lowercase(e.path), to_lowercase(dt.query)) IN
    [dt EXCEPT !.filtered_entries = SelectSeq(dt.entries, Matches),
               !.filtered_folders = SelectSeq(dt.folders, Matches)]

(* Viewer::new: DirectoryTree::default(), State::Loading, an empty title.  *)
ViewerNew ==
    /\ directory_tree = [folders |-> <<>>, filtered_folders |-> <<>>, entries |-> <<>>,
                         filtered_entries |-> <<>>, idx |-> 0, query |-> <<>>]
    /\ state = "Loading"
    /\ image_title = <<>>
    /\ entry = None

(* The process runs until the indexing of load_image panics.               *)
Running == entry.kind # "Panic"

(* Viewer::check_paths_exist on an empty filtered list.                    *)
NoPaths ==
    /\ state' = "Error"
    /\ image_title' = <<>>
    /\ entry' = entry

(* Viewer::load_image on the new directory tree dt: the checked indexing   *)
(* filtered_entries[idx] of line 263, then the title and the outcome of    *)
(* tim2::load, which depends on the file.                                  *)
load_image(dt) ==
    IF dt.idx < Len(dt.filtered_entries)
    THEN /\ entry' = Some(dt.filtered_entries[dt.idx + 1])
         /\ image_title' = dt.filtered_entries[dt.idx + 1].path
         /\ state' \in {"Loaded", "Error"}
    ELSE /\ entry' = Panic("IndexOutOfBounds")
         /\ UNCHANGED <<image_title, state>>

(* Message::LoadedPaths((folders, files))                                  *)
LoadedPaths ==
    /\ Running
    /\ \E S \in SUBSET (1..MaxFiles), folders \in {<<>>, <<FolderName>>} :
         LET dt == update_filter([folders |-> DirectoryEntries(folders),
                                  filtered_folders |-> directory_tree.filtered_folders,
                                  entries |-> DirectoryEntries(SortedFiles(S)),
                                  filtered_entries |-> directory_tree.filtered_entries,
                                  idx |-> 0, query |-> <<>>])
         IN /\ directory_tree' = dt
            /\ IF dt.filtered_entries = <<>> THEN NoPaths ELSE load_image(dt)
    /\ UNCHANGED dvars

(* Message::NextFile                                                       *)
NextFile ==
    /\ Running
    /\ IF directory_tree.filtered_entries = <<>>
       THEN /\ directory_tree' = directory_tree
            /\ NoPaths
       ELSE LET dt == [directory_tree EXCEPT
                          !.idx = (@ + 1) % Len(directory_tree.filtered_entries)]
            IN /\ directory_tree' = dt
               /\ load_image(dt)
    /\ UNCHANGED dvars

(* Message::PrevFile                                                       *)
PrevFile ==
    /\ Running
    /\ IF directory_tree.filtered_entries = <<>>
       THEN /\ directory_tree' = directory_tree
            /\ NoPaths
       ELSE LET dt == [directory_tree EXCEPT
                          !.idx = IF @ = 0 THEN Len(directory_tree.filtered_entries) - 1
                                  ELSE @ - 1]
            IN /\ directory_tree' = dt
               /\ load_image(dt)
    /\ UNCHANGED dvars

(* Message::ChooseFile(idx): sent by the button of position idx of the     *)
(* filtered list on screen (DirectoryTree::view, lines 393-409).           *)
ChooseFile ==
    /\ Running
    /\ \E idx \in 0..(Len(directory_tree.filtered_entries) - 1) :
         LET dt == [directory_tree EXCEPT !.idx = idx]
         IN /\ directory_tree' = dt
            /\ load_image(dt)
    /\ UNCHANGED dvars

(* Message::Search(search)                                                 *)
Search ==
    /\ Running
    /\ \E search \in Queries :
         directory_tree' = update_filter([directory_tree EXCEPT !.query = search])
    /\ UNCHANGED <<state, image_title, entry>>
    /\ UNCHANGED dvars

----------------------------------------------------------------------------
(* The decode pass.                                                        *)

NoFrame == [start |-> 0, header |-> None, data |-> None]

Init ==
    /\ buffer \in Inputs
    /\ offset = 0
    /\ pc = "image_header"
    /\ count = 0
    /\ cur = NoFrame
    /\ frames = <<>>
    /\ result = None
    /\ raw = None
    /\ ViewerNew

(* Image::read, line 43: let header = Header::read(buffer, offset)?        *)
ReadImageHeader ==
    /\ pc = "image_header"
    /\ LET r == ImageHeaderRead(buffer, offset) IN
       /\ offset' = r.offset
       /\ IF r.res.kind = "Ok"
          THEN /\ count' = r.res.v.count
               /\ pc' = "frames"
               /\ result' = result
          ELSE /\ count' = count
               /\ pc' = "done"
               /\ result' = r.res
    /\ UNCHANGED <<buffer, cur, frames, raw, vvars>>

(* A frame loop over 0..=header.count.                                     *)
FrameLoop_Inclusive ==
    /\ pc = "frames"
    /\ IF Len(frames) <= count
       THEN /\ pc' = "frame_header"
            /\ result' = result
       ELSE /\ pc' = "done"
            /\ result' = Ok("Image")
    /\ UNCHANGED <<buffer, offset, count, cur, frames, raw, vvars>>

(* Image::read, lines 46-50: the head of `for _ in 0..header.count`, and   *)
(* Ok(Image { header, frames }) when the range is exhausted.               *)
FrameLoop ==
    /\ pc = "frames"
    /\ IF Len(frames) < count
       THEN /\ pc' = "frame_header"
            /\ result' = result
       ELSE /\ pc' = "done"
            /\ result' = Ok("Image")
    /\ UNCHANGED <<buffer, offset, count, cur, frames, raw, vvars>>

(* Frame::read, line 126                                                   *)
ReadFrameHeader ==
    /\ pc = "frame_header"
    /\ \E build \in Builds :
         LET r == HeaderRead(buffer, offset, build) IN
         /\ offset' = r.offset
         /\ IF r.res.kind = "Ok"
            THEN /\ cur' = [start |-> offset, header |-> r.res.v, data |-> None]
                 /\ pc' = "frame_data"
                 /\ result' = result
            ELSE /\ cur' = cur
                 /\ pc' = "done"
                 /\ result' = r.res
    /\ UNCHANGED <<buffer, count, frames, raw, vvars>>

(* Frame::read, line 127                                                   *)
ReadFrameData ==
    /\ pc = "frame_data"
    /\ LET r == read_data(buffer, offset, cur.header) IN
       /\ offset' = r.offset
       /\ IF r.res.kind = "Ok"
          THEN /\ cur' = [cur EXCEPT !.data = r.res.v]
               /\ pc' = "frame_palettes"
               /\ result' = result
          ELSE /\ cur' = cur
               /\ pc' = "done"
               /\ result' = r.res
    /\ UNCHANGED <<buffer, count, frames, raw, vvars>>

(* A frame end taken from the header's total_size field.                  *)
ReadFramePalettes_ByTotalSize ==
    /\ pc = "frame_palettes"
    /\ LET r == read_palettes(buffer, offset, cur.header) IN
       /\ offset' = cur.start + cur.header.total_size
       /\ IF r.res.kind = "Ok"
          THEN /\ frames' = Append(frames, [start |-> cur.start, header |-> cur.header,
                                            data |-> cur.data, palettes |-> r.res.v])
               /\ pc' = "frames"
               /\ result' = result
          ELSE /\ frames' = frames
               /\ pc' = "done"
               /\ result' = r.res
    /\ UNCHANGED <<buffer, count, cur, raw, vvars>>

(* Frame::read, lines 128-130, and frames.push of Image::read line 47      *)
ReadFramePalettes ==
    /\ pc = "frame_palettes"
    /\ LET r == read_palettes(buffer, offset, cur.header) IN
       /\ offset' = r.offset
       /\ IF r.res.kind = "Ok"
          THEN /\ frames' = Append(frames, [start |-> cur.start, header |-> cur.header,
                                            data |-> cur.data, palettes |-> r.res.v])
               /\ pc' = "frames"
               /\ result' = result
          ELSE /\ frames' = frames
               /\ pc' = "done"
               /\ result' = r.res
    /\ UNCHANGED <<buffer, count, cur, raw, vvars>>

(* The colour keys a caller passes: none, the key of cli/src/texture.rs,   *)
(* or the colour of one of the first MaxKeys pixels of the frame itself.   *)
CliKey == Pixel(0, 255, 0, 255)

KeyChoices(f) ==
    LET px == get_pixels(f) IN
    {None, Some(CliKey)}
    \cup (IF px.kind = "Ok"
          THEN { Some(px.v[k]) : k \in 1..(IF Len(px.v) < MaxKeys THEN Len(px.v) ELSE MaxKeys) }
          ELSE {})

(* A caller materialises a frame of the decoded image: frame.to_raw(key).  *)
(* to_raw takes &self and changes nothing, so one call per pass is         *)
(* recorded.                                                               *)
ToRaw ==
    /\ pc = "done"
    /\ result.kind = "Ok"
    /\ raw.kind = "None"
    /\ \E i \in 1..Len(frames) :
         \E key \in KeyChoices(frames[i]) :
            raw' = [kind |-> "Raw", frame |-> i, key |-> key,
                    out |-> to_raw(frames[i], key)]
    /\ UNCHANGED <<buffer, offset, pc, count, cur, frames, result, vvars>>

Next ==
    \/ ReadImageHeader
    \/ FrameLoop
    \/ ReadFrameHeader
    \/ ReadFrameData
    \/ ReadFramePalettes
    \/ ToRaw

Spec == Init /\ [][Next]_vars

----------------------------------------------------------------------------
(* The same pass over a second family of inputs: every value of the        *)
(* bpp_code byte, palettes of one or more 32-entry groups, frames of one   *)
(* or more 16x8 tiles, and frames whose total_size field is off.           *)

BppInputs ==
    { EncodeImage(<<84, 73, 77, 50>>, 1,
                  <<FrameInput(bc, ps, 4, 48, 1, 0, 3, <<1, 1>>, FALSE, 1)>>, 0) :
        bc \in 0..255, ps \in {0, 4} }

PaletteInputs ==
    { EncodeImage(<<84, 73, 77, 50>>, 1,
                  <<FrameInput(bc, n * cec * ((cf % 8) + 1), 4, 48, cec, 0, cf,
                               <<2, 2>>, FALSE, 0)>>, 0) :
        bc \in {4, 5}, n \in {1, 2}, cec \in {8, 32, 33, 64},
        cf \in {1, 3, 129, 131} }

TileCells(d) ==
    StepCount(d[1], SWIZZLE_WIDTH) * StepCount(d[2], SWIZZLE_HEIGHT)
    * SWIZZLE_WIDTH * SWIZZLE_HEIGHT

(* bpp code 5: one index byte per element, one 1-entry palette; bpp code   *)
(* 1: two bytes per element, no palette.  The payload holds width x height *)
(* elements, whole tiles, or 17 elements.                                  *)
SwizzleInputs ==
    { EncodeImage(<<84, 73, 77, 50>>, 1,
                  <<FrameInput(5, 4, n, 48, 1, 0, 3, d, sw, 0)>>, 0) :
        d \in { <<2, 2>>, <<16, 8>>, <<17, 2>>, <<32, 8>>, <<17, 9>> },
        n \in UNION { {d[1] * d[2], TileCells(d), 17} :
                        d \in { <<2, 2>>, <<16, 8>>, <<17, 2>>, <<32, 8>>, <<17, 9>> } },
        sw \in BOOLEAN }
    \cup
    { EncodeImage(<<84, 73, 77, 50>>, 1,
                  <<FrameInput(1, 0, 2 * n, 48, 0, 0, 0, d, sw, 0)>>, 0) :
        d \in { <<2, 2>>, <<16, 8>>, <<17, 2>> },
        n \in {4, 17, 34, 128, 256},
        sw \in BOOLEAN }

TotalInputs ==
    { EncodeImage(<<84, 73, 77, 50>>, 2, <<WithTotal(f, t), g>>, 0) :
        f \in { x \in SmallFrames : x.header_size >= 48 }, t \in {0, 7},
        g \in TailFrames }

WideInputs == BppInputs \cup PaletteInputs \cup SwizzleInputs \cup TotalInputs

InitWide ==
    /\ buffer \in WideInputs
    /\ offset = 0
    /\ pc = "image_header"
    /\ count = 0
    /\ cur = NoFrame
    /\ frames = <<>>
    /\ result = None
    /\ raw = None
    /\ ViewerNew

SpecWide == InitWide /\ [][Next]_vars

(* The viewer on its own: the decoder is at rest on an empty input.        *)
InitViewer ==
    /\ buffer = <<>>
    /\ offset = 0
    /\ pc = "image_header"
    /\ count = 0
    /\ cur = NoFrame
    /\ frames = <<>>
    /\ result = None
    /\ raw = None
    /\ ViewerNew

NextViewer ==
    \/ LoadedPaths
    \/ NextFile
    \/ PrevFile
    \/ ChooseFile
    \/ Search

SpecViewer == InitViewer /\ [][NextViewer]_vars

----------------------------------------------------------------------------
(* Properties.  The quantities below are read off the input bytes          *)
(* directly, at the offsets of the container and frame header layouts.     *)

Magic == ((buffer[1] * 256 + buffer[2]) * 256 + buffer[3]) * 256 + buffer[4]
DeclaredCount == buffer[7] + 256 * buffer[8]
U16At(o) == buffer[o + 1] + 256 * buffer[o + 2]
U32At(o) == U16At(o) + 65536 * U16At(o + 2)
Decoded == pc = "done" /\ result.kind = "Ok"
Area(f) == f.header.width * f.header.height

(* C1: for every input of at least 16 bytes whose first four bytes, read   *)
(* big-endian, differ from 0x54494D32 the pass ends with                   *)
(* InvalidIdentifier(magic), with no frame parsed and the cursor just      *)
(* behind the container header; with the right magic that error never      *)
(* appears.                                                                *)
C1_MagicRejection ==
    (Len(buffer) >= 16 /\ pc # "image_header") =>
        IF Magic # IDENT
        THEN /\ pc = "done"
             /\ result.kind = "Err"
             /\ result.err = "InvalidIdentifier"
             /\ result.arg = Magic
             /\ frames = <<>>
             /\ offset = 16
        ELSE ~(result.kind = "Err" /\ result.err = "InvalidIdentifier")

C1_Witness ==
    /\ pc = "done"
    /\ Len(buffer) > 16 + FRAME_HEADER_SIZE
    /\ DeclaredCount > 0
    /\ Magic = 0
    /\ result.kind = "Err"
    /\ result.err = "InvalidIdentifier"

(* C2: after a successful decode the image holds exactly frame_count       *)
(* frames (the little-endian u16 at offset 6), the i-th of them read from  *)
(* the i-th frame of the input; a container that declares no frame decodes *)
(* to an image without frames.                                             *)
C2_FrameCount ==
    /\ Decoded =>
         /\ Len(frames) = DeclaredCount
         /\ \A i \in 1..Len(frames) :
              /\ frames[i].start = IF i = 1 THEN 16
                                   ELSE frames[i - 1].start
                                        + frames[i - 1].header.header_size
                                        + frames[i - 1].header.image_size
                                        + frames[i - 1].header.palette_size
              /\ frames[i].header.palette_size = U32At(frames[i].start + 4)
              /\ frames[i].header.image_size = U32At(frames[i].start + 8)
    /\ (pc = "done" /\ Len(buffer) >= 16 /\ Magic = IDENT /\ DeclaredCount = 0) =>
         (result.kind = "Ok" /\ frames = <<>>)

C2_Witness ==
    /\ Decoded
    /\ DeclaredCount = 2
    /\ Len(frames) = 2
    /\ frames[1].header.palette_size # frames[2].header.palette_size

C2_WitnessEmpty == Decoded /\ DeclaredCount = 0 /\ frames = <<>>

(* The payload bytes of a decoded frame, as they lie in the input.         *)
Payload(f) ==
    SubSeq(buffer, f.start + f.header.header_size + 1,
           f.start + f.header.header_size + f.header.image_size)

(* The pixel at position k of a frame whose indices resolve: entry data[k] *)
(* of palette 0 for an indexed frame, data[k] for a true-color frame.      *)
PixelAt(f, k) ==
    IF f.data.kind = "Indices" THEN f.palettes[1][f.data.v[k] + 1] ELSE f.data.v[k]

(* C3: in every successfully decoded image the data of every frame has     *)
(* width x height elements.                                                *)
C3_DataLenIsArea ==
    Decoded => \A i \in 1..Len(frames) : Len(frames[i].data.v) = Area(frames[i])

(* C4: to_raw(None) of a successfully decoded frame has width x height x 4 *)
(* bytes.                                                                  *)
C4_RawLenIsArea4 ==
    (raw.kind # "None" /\ raw.key.kind = "None" /\ raw.out.kind = "Ok") =>
        Len(raw.out.v) = Area(frames[raw.frame]) * 4

(* C5: the bytes 4k..4k+3 of to_raw(None) are r, g, b, a of pixel k, which *)
(* is entry data[k] of palette 0 for an indexed frame and data[k] for a    *)
(* true-color frame.                                                       *)
C5_RawIsPixels ==
    (raw.kind # "None" /\ raw.key.kind = "None" /\ raw.out.kind = "Ok") =>
        LET f == frames[raw.frame] IN
        /\ Len(raw.out.v) = 4 * Len(f.data.v)
        /\ \A k \in 1..Len(f.data.v) :
             LET px == PixelAt(f, k) IN
             /\ raw.out.v[4 * k - 3] = px.r
             /\ raw.out.v[4 * k - 2] = px.g
             /\ raw.out.v[4 * k - 1] = px.b
             /\ raw.out.v[4 * k] = px.a

C5_Witness ==
    /\ raw.kind # "None" /\ raw.key.kind = "None" /\ raw.out.kind = "Ok"
    /\ frames[raw.frame].data.kind = "Indices"
    /\ Len(frames[raw.frame].data.v) >= 2
    /\ Len(frames[raw.frame].palettes) = 2
    /\ frames[raw.frame].palettes[1] # frames[raw.frame].palettes[2]

(* C6 as stated: with a key p the alpha byte of pixel k is 0 if and only   *)
(* if pixel k equals p, and the pixel's own alpha otherwise; r, g, b are   *)
(* the pixel's.                                                            *)
C6_ColorKeyIff ==
    (raw.kind # "None" /\ raw.key.kind = "Some" /\ raw.out.kind = "Ok") =>
        LET f == frames[raw.frame] IN
        \A k \in 1..Len(f.data.v) :
            LET px == PixelAt(f, k) IN
            /\ (raw.out.v[4 * k] = 0) <=> (px = raw.key.v)
            /\ px # raw.key.v => raw.out.v[4 * k] = px.a
            /\ raw.out.v[4 * k - 3] = px.r
            /\ raw.out.v[4 * k - 2] = px.g
            /\ raw.out.v[4 * k - 1] = px.b

(* C6 amended: with a key p the alpha byte of pixel k is 0 if pixel k      *)
(* equals p, and the pixel's own alpha (which may be 0) otherwise; r, g, b *)
(* are the pixel's.                                                        *)
C6_ColorKey ==
    (raw.kind # "None" /\ raw.key.kind = "Some" /\ raw.out.kind = "Ok") =>
        LET f == frames[raw.frame] IN
        /\ Len(raw.out.v) = 4 * Len(f.data.v)
        /\ \A k \in 1..Len(f.data.v) :
             LET px == PixelAt(f, k) IN
             /\ raw.out.v[4 * k] = IF px = raw.key.v THEN 0 ELSE px.a
             /\ raw.out.v[4 * k - 3] = px.r
             /\ raw.out.v[4 * k - 2] = px.g
             /\ raw.out.v[4 * k - 1] = px.b

C6_Witness ==
    /\ raw.kind # "None" /\ raw.key.kind = "Some" /\ raw.out.kind = "Ok"
    /\ LET f == frames[raw.frame] IN
       /\ Len(f.data.v) >= 2
       /\ \E k \in 1..Len(f.data.v) : PixelAt(f, k) = raw.key.v /\ raw.key.v.a # 0
       /\ \E k \in 1..Len(f.data.v) : PixelAt(f, k) # raw.key.v

(* C7: every payload byte b of a 4-bpp frame yields the index b >> 4       *)
(* followed by the index b & 0x0F (stated for frames that are not          *)
(* unswizzled, whose data keeps the stream order).                         *)
C7_HighNibbleFirst ==
    Decoded =>
        \A i \in 1..Len(frames) :
            LET f == frames[i] IN
            (f.header.bpp = 4 /\ ~needs_unswizzle(f.header)) =>
                /\ Len(f.data.v) = 2 * f.header.image_size
                /\ \A j \in 1..f.header.image_size :
                     /\ f.data.v[2 * j - 1] = Payload(f)[j] \div 16
                     /\ f.data.v[2 * j] = Payload(f)[j] % 16

(* C8: in a successfully decoded image a frame with palette_size > 0 has   *)
(* bit depth 4 or 8 and a frame with palette_size = 0 has bit depth 16, 24 *)
(* or 32.                                                                  *)
C8_DepthMatchesPalette ==
    Decoded =>
        \A i \in 1..Len(frames) :
            LET h == frames[i].header IN
            /\ h.palette_size > 0 => h.bpp \in {4, 8}
            /\ h.palette_size = 0 => h.bpp \in {16, 24, 32}

(* C9: when the pass is about to read a frame header that lies in the      *)
(* input with all its header_size bytes, carries bpp code 1, 2 or 3 and a  *)
(* palette_size > 0, the pass ends with TrueColorAndPaletteFound and the   *)
(* cursor just behind the header and its user data.                        *)
C9_TrueColorAndPalette ==
    [][(/\ pc = "frame_header"
        /\ offset + FRAME_HEADER_SIZE <= Len(buffer)
        /\ offset + U16At(offset + 12) <= Len(buffer)
        /\ buffer[offset + 20] \in {1, 2, 3}
        /\ U32At(offset + 4) > 0)
       => (/\ pc' = "done"
           /\ result'.kind = "Err"
           /\ result'.err = "TrueColorAndPaletteFound"
           /\ offset' = offset + U16At(offset + 12))]_vars

(* C10: in a successfully decoded frame with palette_size > 0 every        *)
(* palette has color_entry_count entries, and the palettes together take   *)
(* exactly palette_size bytes.                                             *)
C10_PalettesExact ==
    Decoded =>
        \A i \in 1..Len(frames) :
            LET f == frames[i] IN
            f.header.palette_size > 0 =>
                /\ \A j \in 1..Len(f.palettes) :
                     Len(f.palettes[j]) = f.header.color_entry_count
                /\ Len(f.palettes) * f.header.color_entry_count * color_size(f.header)
                     = f.header.palette_size

(* C11: in a successfully decoded image every frame whose format() is      *)
(* Indexed4 has at least one palette and carries the bpp code of bit depth *)
(* 4 in its header.                                                        *)
C11_Indexed4HasPalette ==
    Decoded =>
        \A i \in 1..Len(frames) :
            (format(frames[i]).kind = "Ok" /\ format(frames[i]).v = "Indexed4") =>
                /\ Len(frames[i].palettes) >= 1
                /\ buffer[frames[i].start + 20] = 4

(* The bit depth the header carries for each valid bpp code.               *)
BppOfCode == <<16, 24, 32, 4, 8>>

(* C12: when a frame header whose first 20 bytes are present is read, a    *)
(* bpp code of 1..5 is never reported as InvalidBppFormat and a header     *)
(* that is accepted carries bit depth 16, 24, 32, 4, 8 respectively; every *)
(* other code v of 0..255 ends the decode with InvalidBppFormat(v), also   *)
(* when palette_size is positive.                                          *)
C12_BppCode ==
    [][ (pc = "frame_header" /\ pc' # "frame_header" /\ offset + 20 <= Len(buffer)) =>
            LET v == buffer[offset + 20] IN
            IF v \in 1..5
            THEN /\ ~(result'.kind = "Err" /\ result'.err = "InvalidBppFormat")
                 /\ pc' = "frame_data" => cur'.header.bpp = BppOfCode[v]
            ELSE /\ pc' = "done"
                 /\ result' = Err("InvalidBppFormat", v) ]_vars

(* An invalid code next to a positive palette_size has been rejected as    *)
(* InvalidBppFormat.                                                       *)
C12_Witness ==
    /\ pc = "done"
    /\ result = Err("InvalidBppFormat", 200)
    /\ U32At(16 + 4) > 0

(* The step ends the decode with the error UnexpectedEndOfInput.           *)
FailsWithEndOfInput ==
    /\ pc' = "done"
    /\ result'.kind = "Err"
    /\ result'.err = "UnexpectedEndOfInput"

(* C13: a read that needs more bytes than remain after the cursor (the     *)
(* container magic, the fixed part of a frame header, the image_size bytes *)
(* of the pixel data, the palette_size bytes of the palettes) makes the    *)
(* decode fail with UnexpectedEndOfInput.                                  *)
C13_ShortReadIsError ==
    [][ /\ (pc = "image_header" /\ offset + 4 > Len(buffer)) => FailsWithEndOfInput
        /\ (pc = "frame_header" /\ offset + 20 > Len(buffer)) => FailsWithEndOfInput
        /\ (pc = "frame_data" /\ offset + cur.header.image_size > Len(buffer))
               => FailsWithEndOfInput
        /\ (pc = "frame_palettes" /\ cur.header.palette_size > 0
               /\ offset + cur.header.palette_size > Len(buffer))
               => FailsWithEndOfInput ]_vars

(* C14: the decode of every input ends with an Image or with an error      *)
(* value, never abnormally.  The end of a read past the input is the       *)
(* subject of C13 and is let through here, so that what is stated is the   *)
(* absence of arithmetic underflow, division by zero, a zero step and an   *)
(* out-of-range index.                                                     *)
C14_NoAbnormalEnd ==
    pc = "done" =>
        \/ result.kind \in {"Ok", "Err"}
        \/ result.kind = "Panic" /\ result.cause = "UnexpectedEndOfInput"

(* The palettes as stored in the input: entry e of palette j of frame f is *)
(* the colour sample at its place behind the pixel data.                   *)
StoredSampleSize(f) == (buffer[f.start + 19] % 8) + 1

StoredEntry(f, j, e) ==
    LET cs == StoredSampleSize(f)
        base == f.start + U16At(f.start + 12) + U32At(f.start + 8)
                + (j * U16At(f.start + 14) + e) * cs
    IN from_buf(SubSeq(buffer, base + 1, base + cs)).v

StoredPalette(f, j) ==
    [k \in 1..U16At(f.start + 14) |-> StoredEntry(f, j, k - 1)]

LinearizationApplies(f) ==
    buffer[f.start + 20] = 5 /\ (buffer[f.start + 19] \div 128) % 2 = 0

(* C15: every palette of a decoded frame is the linearized stored palette  *)
(* when the frame has bit depth 8 (bpp code 5) and bit 0x80 of clut_format *)
(* is clear, and the stored palette in stored order in every other case.   *)
C15_LinearizeIff ==
    Decoded =>
        \A i \in 1..Len(frames) : \A j \in 1..Len(frames[i].palettes) :
            frames[i].palettes[j] =
                IF LinearizationApplies(frames[i])
                THEN linearize_palette(StoredPalette(frames[i], j - 1))
                ELSE StoredPalette(frames[i], j - 1)

(* A decoded 8-bpp frame whose second palette of at least 32 entries is    *)
(* no longer in stored order.                                              *)
C15_Witness ==
    /\ Decoded
    /\ Len(frames) = 1
    /\ LinearizationApplies(frames[1])
    /\ Len(frames[1].palettes) = 2
    /\ Len(frames[1].palettes[2]) >= 32
    /\ frames[1].palettes[2] # StoredPalette(frames[1], 1)

(* C16: in every palette to which linearization applies, for every full    *)
(* 32-entry group part, block and stripe in {0,1} and color in 0..7, entry *)
(* part*32 + block*16 + stripe*8 + color of the decoded palette is entry   *)
(* part*32 + block*8 + stripe*16 + color of the stored palette.            *)
C16_LinearizeMapping ==
    Decoded =>
        \A i \in 1..Len(frames) :
            LinearizationApplies(frames[i]) =>
                \A j \in 1..Len(frames[i].palettes) :
                    \A part \in 0..((Len(frames[i].palettes[j]) \div 32) - 1) :
                        \A block \in 0..1, stripe \in 0..1, color \in 0..7 :
                            frames[i].palettes[j][part * 32 + block * 16 + stripe * 8 + color + 1]
                            = StoredEntry(frames[i], j - 1,
                                          part * 32 + block * 8 + stripe * 16 + color)

(* A decoded 64-entry palette whose entry 40 (part 1, block 0, stripe 1)   *)
(* holds stored entry 48 and not stored entry 40.                          *)
C16_Witness ==
    /\ Decoded
    /\ Len(frames) = 1
    /\ LinearizationApplies(frames[1])
    /\ Len(frames[1].palettes) >= 1
    /\ Len(frames[1].palettes[1]) = 64
    /\ frames[1].palettes[1][41] = StoredEntry(frames[1], 0, 48)
    /\ frames[1].palettes[1][41] # StoredEntry(frames[1], 0, 40)

(* The elements of a frame in stream order: the index bytes (two per byte  *)
(* at bit depth 4) of a frame with palettes, the colour samples of a frame *)
(* without.                                                                *)
Stream(f) ==
    IF U32At(f.start + 4) > 0
    THEN IF f.header.bpp = 4 THEN unpack_nibbles(Payload(f)) ELSE Payload(f)
    ELSE read_colors(Payload(f), f.header.bpp \div 8).v

(* Bit 55 of gs_tex_0: bit 7 of byte 6 of the register at header offset 24 *)
Bit55(f) == (buffer[f.start + 24 + 7] \div 128) % 2 = 1

(* C17: the data of a decoded frame is its stream when bit 55 of gs_tex_0  *)
(* is clear; when the bit is set, walking the tiles of 16 x 8 row by row   *)
(* with a cursor i that advances for every cell, every cell (tx, ty) with  *)
(* tx < W, ty < H and i inside the stream holds stream element i at index  *)
(* ty * W + tx.  This is so for index bytes and for pixels.                *)
C17_UnswizzleMapping ==
    Decoded =>
        \A n \in 1..Len(frames) :
            LET f == frames[n]
                W == f.header.width
                H == f.header.height
                cols == (W + 15) \div 16
                rows == (H + 7) \div 8
            IN
            /\ Len(f.data.v) = Len(Stream(f))
            /\ f.data.kind = (IF U32At(f.start + 4) > 0 THEN "Indices" ELSE "Pixels")
            /\ IF Bit55(f)
               THEN \A r \in 0..(rows - 1), c \in 0..(cols - 1), dy \in 0..7, dx \in 0..15 :
                        LET i == ((r * cols + c) * 8 + dy) * 16 + dx
                            tx == c * 16 + dx
                            ty == r * 8 + dy
                        IN (tx < W /\ ty < H /\ i < Len(Stream(f))) =>
                               f.data.v[ty * W + tx + 1] = Stream(f)[i + 1]
               ELSE f.data.v = Stream(f)

(* A decoded true-color frame of 17 x 2 with bit 55 set: cell (0, 1) is    *)
(* cell 16 of the first tile and holds stream element 16 at index 17, and  *)
(* the data is not the stream.                                             *)
C17_Witness ==
    /\ Decoded
    /\ Len(frames) = 1
    /\ Bit55(frames[1])
    /\ frames[1].data.kind = "Pixels"
    /\ frames[1].header.width = 17
    /\ Len(frames[1].data.v) = 34
    /\ frames[1].data.v[18] = Stream(frames[1])[17]
    /\ frames[1].data.v # Stream(frames[1])

(* A decoded indexed frame of 32 x 8 with bit 55 set, whose second tile    *)
(* starts at stream element 128 and at index 16.                           *)
C17_WitnessIndices ==
    /\ Decoded
    /\ Len(frames) = 1
    /\ Bit55(frames[1])
    /\ frames[1].data.kind = "Indices"
    /\ frames[1].header.width = 32
    /\ Len(frames[1].data.v) = 256
    /\ frames[1].data.v[17] = Stream(frames[1])[129]
    /\ frames[1].data.v # Stream(frames[1])

(* The number of elements read_data hands to unswizzle.                    *)
SourceLen(h) ==
    IF h.palette_size > 0
    THEN IF h.bpp = 4 THEN 2 * h.image_size ELSE h.image_size
    ELSE h.image_size \div (h.bpp \div 8)

(* The pixel data of the frame is present and splits into whole elements.  *)
SourceReadable(h) ==
    /\ offset + h.image_size <= Len(buffer)
    /\ h.palette_size = 0 => (h.bpp >= 16 /\ h.image_size % (h.bpp \div 8) = 0)

(* C18: for every width, height and source length, reading the data of a   *)
(* frame with bit 55 of gs_tex_0 set succeeds and yields as many elements  *)
(* as the source has.                                                      *)
C18_UnswizzleNeverFails ==
    [][ (pc = "frame_data" /\ (cur.header.gs_tex_0[7] \div 128) % 2 = 1
         /\ SourceReadable(cur.header)) =>
            /\ pc' = "frame_palettes"
            /\ Len(cur'.data.v) = SourceLen(cur.header) ]_vars

(* The input with the `paletted` byte (header offset 16) of the frame that *)
(* starts at position s exchanged between zero and non-zero, and the       *)
(* decode of that frame from it.                                           *)
OtherPaletted(s) == [buffer EXCEPT ![s + 17] = IF @ = 0 THEN 1 ELSE 0]

OtherDecode(s) ==
    LET b == OtherPaletted(s)
        h == HeaderRead(b, s, "debug")
        d == read_data(b, h.offset, h.res.v)
        p == read_palettes(b, d.offset, h.res.v)
    IN [header |-> h.res, data |-> d.res, palettes |-> p.res]

(* C19: a decoded frame holds Indices exactly when its palette_size field  *)
(* is positive and Pixels exactly when it is zero, and the input that      *)
(* differs only in the `paletted` byte of the frame decodes to the same    *)
(* data and palettes and gives the same to_raw output.                     *)
C19_PaletteSizeDecides ==
    Decoded =>
        \A i \in 1..Len(frames) :
            LET f == frames[i]
                o == OtherDecode(f.start)
            IN
            /\ f.data.kind = "Indices" <=> U32At(f.start + 4) > 0
            /\ f.data.kind = "Pixels" <=> U32At(f.start + 4) = 0
            /\ o.header.kind = "Ok"
            /\ o.header.v.paletted # f.header.paletted
            /\ o.data = Ok(f.data)
            /\ o.palettes = Ok(f.palettes)
            /\ (raw.kind # "None" /\ raw.frame = i) =>
                   raw.out = to_raw([f EXCEPT !.header = o.header.v], raw.key)

(* A decoded true-color frame whose `paletted` byte is 1, materialised,    *)
(* and a decoded indexed frame whose `paletted` byte is 0.                 *)
C19_Witness ==
    /\ Decoded
    /\ Len(frames) = 2
    /\ buffer[frames[1].start + 17] = 1
    /\ U32At(frames[1].start + 4) = 0
    /\ frames[1].data.kind = "Pixels"
    /\ raw.kind # "None"
    /\ raw.frame = 1
    /\ raw.out.kind = "Ok"

C19_WitnessIndices ==
    /\ Decoded
    /\ Len(frames) >= 1
    /\ buffer[frames[1].start + 17] = 0
    /\ U32At(frames[1].start + 4) > 0
    /\ frames[1].data.kind = "Indices"
    /\ raw.kind # "None"
    /\ raw.frame = 1
    /\ raw.out.kind = "Ok"

(* C20: the cursor never moves backwards; reading the header of a frame at *)
(* position c moves it by header_size (the 48 fixed bytes and the user     *)
(* data, which is retained), reading the pixel data by image_size, reading *)
(* the palettes by palette_size, which leaves it at c + header_size +      *)
(* image_size + palette_size; the next frame is read from there, whatever  *)
(* the total_size field holds.                                             *)
C20_CursorOrder ==
    [][ /\ offset' >= offset
        /\ (pc = "frame_header" /\ pc' = "frame_data") =>
               /\ cur'.start = offset
               /\ U16At(offset + 12) >= 48
               /\ offset' = offset + U16At(offset + 12)
               /\ cur'.header.user_data = SubSeq(buffer, offset + 48 + 1, offset')
        /\ (pc = "frame_data" /\ pc' = "frame_palettes") =>
               /\ offset = cur.start + U16At(cur.start + 12)
               /\ offset' = offset + U32At(cur.start + 8)
        /\ (pc = "frame_palettes" /\ pc' = "frames") =>
               /\ offset' = offset + U32At(cur.start + 4)
               /\ offset' = cur.start + U16At(cur.start + 12) + U32At(cur.start + 8)
                            + U32At(cur.start + 4)
        /\ pc = "frames" => offset' = offset ]_vars

(* Two frames decoded, the first with user data and a total_size field     *)
(* that is not the sum of its three sizes, the second starting where the   *)
(* first ended.                                                            *)
C20_Witness ==
    /\ Decoded
    /\ Len(frames) = 2
    /\ U16At(frames[1].start + 12) > 48
    /\ U32At(frames[1].start) # U16At(frames[1].start + 12) + U32At(frames[1].start + 8)
                                + U32At(frames[1].start + 4)
    /\ frames[2].start = frames[1].start + U16At(frames[1].start + 12)
                         + U32At(frames[1].start + 8) + U32At(frames[1].start + 4)
    /\ offset = Len(buffer)

(* Within a group of 32, positions 8..15 and 16..23 change places.         *)
GroupExchange(e) ==
    IF e \in 8..15 THEN e + 8 ELSE IF e \in 16..23 THEN e - 8 ELSE e

(* C21: a linearized palette has the length of the stored one; in every    *)
(* full group of 32 its entries 8..15 are the stored entries 16..23 and    *)
(* the other way round, entries 0..7 and 24..31 stay in place, the         *)
(* trailing len mod 32 entries are unchanged, and linearizing it again     *)
(* gives the stored palette back.                                          *)
C21_LinearizeInvolution ==
    Decoded =>
        \A i \in 1..Len(frames) :
            LinearizationApplies(frames[i]) =>
                \A j \in 1..Len(frames[i].palettes) :
                    LET p == frames[i].palettes[j]
                        s == StoredPalette(frames[i], j - 1)
                        full == (Len(s) \div 32) * 32
                    IN
                    /\ Len(p) = Len(s)
                    /\ \A k \in 0..(Len(s) - 1) :
                         p[k + 1] = IF k < full
                                    THEN s[(k \div 32) * 32 + GroupExchange(k % 32) + 1]
                                    ELSE s[k + 1]
                    /\ linearize_palette(p) = s
                    /\ Len(linearize_palette(p)) = Len(p)

(* A decoded palette of 33 entries: entry 8 holds stored entry 16, entry   *)
(* 32 is in place, the palette is not in stored order and a second         *)
(* linearization restores it.                                              *)
C21_Witness ==
    /\ Decoded
    /\ Len(frames) = 1
    /\ LinearizationApplies(frames[1])
    /\ Len(frames[1].palettes) >= 1
    /\ Len(frames[1].palettes[1]) = 33
    /\ frames[1].palettes[1][9] = StoredEntry(frames[1], 0, 16)
    /\ frames[1].palettes[1][33] = StoredEntry(frames[1], 0, 32)
    /\ frames[1].palettes[1] # StoredPalette(frames[1], 0)
    /\ linearize_palette(frames[1].palettes[1]) = StoredPalette(frames[1], 0)

(* The destination index of source element i of a frame of width W in the  *)
(* row-by-row walk over tiles of 16 x 8.                                   *)
TileDest(W, i) ==
    LET t == i \div 128
        cols == W \div 16
        ty == (t \div cols) * 8 + ((i % 128) \div 16)
        tx == (t % cols) * 16 + (i % 16)
    IN ty * W + tx

(* The frame is made of whole tiles and its stream has one element per     *)
(* cell.                                                                   *)
WholeTiles(f) ==
    /\ Bit55(f)
    /\ f.header.width > 0 /\ f.header.width % 16 = 0
    /\ f.header.height > 0 /\ f.header.height % 8 = 0
    /\ Len(Stream(f)) = f.header.width * f.header.height

(* C22: for a decoded frame of whole tiles whose source has width x height *)
(* elements, unswizzle is a bijection: the source positions go to pairwise *)
(* different destination indices that cover 0..width x height - 1, every   *)
(* destination holds the source element that goes there, and the result    *)
(* has exactly the elements of the source, none dropped and no filler.     *)
C22_UnswizzleBijection ==
    Decoded =>
        \A m \in 1..Len(frames) :
            WholeTiles(frames[m]) =>
                LET f == frames[m]
                    n == f.header.width * f.header.height
                    src == Stream(f) \o <<>>
                    dest == [i \in 1..n |-> TileDest(f.header.width, i - 1)] \o <<>>
                IN
                /\ Len(f.data.v) = n
                /\ { dest[i] : i \in 1..n } = 0..(n - 1)
                /\ \A i \in 1..n : f.data.v[dest[i] + 1] = src[i]
                /\ { f.data.v[k] : k \in 1..n } = { src[i] : i \in 1..n }
                /\ Cardinality({ src[i] : i \in 1..n }) = n =>
                       Cardinality({ f.data.v[k] : k \in 1..n }) = n

(* A decoded indexed frame of 32 x 8 with 256 pairwise different source    *)
(* elements: the last element of the first tile (source 127) sits at the   *)
(* end of the left half of the last row (index 7 * 32 + 15), and the       *)
(* result has 256 different elements.                                      *)
C22_Witness ==
    /\ Decoded
    /\ Len(frames) = 1
    /\ WholeTiles(frames[1])
    /\ frames[1].header.width = 32
    /\ frames[1].header.height = 8
    /\ frames[1].data.v[7 * 32 + 15 + 1] = Stream(frames[1])[128]
    /\ Cardinality({ frames[1].data.v[k] : k \in 1..256 }) = 256
    /\ frames[1].data.v # Stream(frames[1])

(* C23: in the viewer, after any sequence of LoadedPaths, NextFile,        *)
(* PrevFile, ChooseFile and Search messages, every call of load_image      *)
(* finds idx < filtered_entries.len(): the indexing of the filtered list   *)
(* never fails.                                                            *)
C23_IdxInRange ==
    entry.kind # "Panic"

====
